---- MODULE Spec2Model ----
(***************************************************************************)
(* A model of the intrinsic-reward shaper (curiosity/intrinsic/intrinsic.py)*)
(* and of the clipped-surrogate policy update (kitten/rl/ppo.py).          *)
(*                                                                         *)
(* Real numbers of the shaper are fixed-point integers: a value x is held  *)
(* as x * Scale, quotients and square roots are rounded down to that       *)
(* resolution.                                                             *)
(* Real numbers of the policy update are exact: rationals n/d, extended   *)
(* with the IEEE values NaN (0/0), +Inf (1/0) and -Inf (-1/0).  A          *)
(* log-probability is held in units of ln 2, so that exp of a difference   *)
(* of two of them is a power of two.                                       *)
(***************************************************************************)
EXTENDS Integers, Sequences, FiniteSets

VARIABLES
    ir,       \* the IntrinsicReward object (its fields)
    ir_call,  \* the last method call made on it: arguments, object before, what it did
    ppo,      \* the ProximalPolicyOptimisation object (its fields)
    upd       \* the frame of its update call: position, locals, calls made so far

vars == <<ir, ir_call, ppo, upd>>

---------------------------------------------------------------------------
(* Bounds of the model *)

\* largest batch handed to the shaper
MaxN == 2
\* largest number of trainings of the auxiliary predictor
MaxPred == 1
\* largest total weight the running statistic accumulates
MaxCount == 2
\* largest batch handed to the policy update
MaxBatch == 2
\* largest number of update calls made on one policy-update object
MaxCalls == 2
\* fixed-point resolution: x is held as x * Scale
Scale == 10

---------------------------------------------------------------------------
(* Arithmetic helpers *)

Abs(x) == IF x < 0 THEN -x ELSE x
Min2(a, b) == IF a <= b THEN a ELSE b
Max2(a, b) == IF a >= b THEN a ELSE b

RECURSIVE SumSeq(_)
SumSeq(s) == IF s = <<>> THEN 0 ELSE Head(s) + SumSeq(Tail(s))

RECURSIVE MaxSeq(_)
MaxSeq(s) == IF Len(s) = 1 THEN s[1] ELSE Max2(Head(s), MaxSeq(Tail(s)))

\* floor of the square root of x >= 0
ISqrt(x) == CHOOSE k \in 0..x : k * k <= x /\ (k + 1) * (k + 1) > x

\* torch.clamp(x, lo, hi): min(max(x, lo), hi)
clamp(x, lo, hi) == Min2(Max2(x, lo), hi)

\* torch.mean of a non-empty vector of fixed-point values
mean(v) == SumSeq(v) \div Len(v)

---------------------------------------------------------------------------
(* Transition batches: parallel arrays s_0, a, r, s_1, d *)

\* the single transitions batches are made of: <<s_0, a, r, s_1, d>>
Samples == { <<2, 0, 1, -1, 0>>, <<-1, 1, 2, 2, 1>> }

Transition(s_0, a, r, s_1, d) ==
    [s_0 |-> s_0, a |-> a, r |-> r, s_1 |-> s_1, d |-> d]

BatchOf(ts) ==
    Transition([j \in 1..Len(ts) |-> ts[j][1]], [j \in 1..Len(ts) |-> ts[j][2]],
               [j \in 1..Len(ts) |-> ts[j][3]], [j \in 1..Len(ts) |-> ts[j][4]],
               [j \in 1..Len(ts) |-> ts[j][5]])

Batches == UNION { { BatchOf(ts) : ts \in [1..n -> Samples] } : n \in 1..MaxN }

\* importance weights of the samples of a batch
WeightVals == {1, 2}
AuxFor(batch) == { [weights |-> w] : w \in [1..Len(batch.r) -> WeightVals] }
\* no auxiliary data: the methods that take none
NoAux == [weights |-> <<>>]

---------------------------------------------------------------------------
(* RunningMeanVariance (curiosity.util.stat): weighted count, mean and     *)
(* variance, kept here as the weighted sums they are functions of.         *)

\* the additive epsilon of std, in units of 1/Scale^2
EpsFP == 1

RunningMeanVariance == [count |-> 0, wsum |-> 0, wsumsq |-> 0]

\* variance * Scale^2
var(st) ==
    IF st.count = 0 THEN 0
    ELSE ((st.count * st.wsumsq - st.wsum * st.wsum) * Scale * Scale)
             \div (st.count * st.count)

\* std = sqrt(var + epsilon), * Scale
std(st) == ISqrt(var(st) + EpsFP)

ones(n) == [j \in 1..n |-> 1]

add_tensor_batch(st, x, w) ==
    [count  |-> st.count  + SumSeq(w),
     wsum   |-> st.wsum   + SumSeq([j \in 1..Len(x) |-> w[j] * x[j]]),
     wsumsq |-> st.wsumsq + SumSeq([j \in 1..Len(x) |-> w[j] * x[j] * x[j]])]

---------------------------------------------------------------------------
(* IntrinsicReward and its variants *)

\* Optional[float]: None, or a value
None == [none |-> TRUE, v |-> 0]
Some(v) == [none |-> FALSE, v |-> v]

\* the concrete variants: the null object of intrinsic.py, and a variant
\* that owns a trained predictor (prediction s_1 ~ pred * s_0)
Kinds == {"NoIntrinsicReward", "PredictionError"}

\* IntrinsicReward.__init__: the fields of a new object.  reward_normalisation
\* is a RunningMeanVariance (on) or False (not on).
IntrinsicReward(kind, int_coef, ext_coef, reward_normalisation, normalised_obs_clip) ==
    [kind |-> kind,
     info |-> [logged |-> FALSE, mean_intrinsic_reward |-> 0,
               max_intrinsic_reward |-> 0, mean_extrinsic_reward |-> 0],
     int_coef |-> int_coef,
     ext_coef |-> ext_coef,
     reward_normalisation |-> [on |-> reward_normalisation, st |-> RunningMeanVariance],
     normalised_obs_clip |-> normalised_obs_clip,
     pred |-> 0]

\* IntrinsicReward._clip_batch
_clip_batch(o, batch) ==
    IF ~o.normalised_obs_clip.none
    THEN LET c == o.normalised_obs_clip.v
             s_0 == [j \in 1..Len(batch.s_0) |-> clamp(batch.s_0[j], -c, c)]
             s_1 == [j \in 1..Len(batch.s_1) |-> clamp(batch.s_1[j], -c, c)]
         IN  Transition(s_0, batch.a, batch.r, s_1, batch.d)
    ELSE batch

\* NoIntrinsicReward._reward: torch.zeros(batch.r.shape[0])
NoIntrinsicReward_reward(batch) == [j \in 1..Len(batch.r) |-> 0]

\* NoIntrinsicReward._update: pass
NoIntrinsicReward_update(o) == o

\* the prediction-error variant: the error of the prediction pred * s_0 of s_1
PredictionError_reward(o, batch) ==
    [j \in 1..Len(batch.r) |-> Abs(batch.s_1[j] - o.pred * batch.s_0[j])]

\* the prediction-error variant: one training of the predictor
PredictionError_update(o) == [o EXCEPT !.pred = @ + 1]

\* the abstract _reward, dispatched on the variant
_reward(o, batch) ==
    IF o.kind = "NoIntrinsicReward" THEN NoIntrinsicReward_reward(batch)
    ELSE PredictionError_reward(o, batch)

\* the abstract _update, dispatched on the variant
_update(o, batch, aux, step) ==
    IF o.kind = "NoIntrinsicReward" THEN NoIntrinsicReward_update(o)
    ELSE PredictionError_update(o)

\* What a method did is the object after it (obj), its return value (ret),
\* the error it raised (err, "" for none) and the calls it made to the running
\* statistic and to _update, in order (events), each with the predictor's
\* state at the time.
Event(f, arg, o) == [f |-> f, arg |-> arg, pred |-> o.pred]

\* reward with the normalisation left out: a fault C8_RewardTuple must detect
reward_unnormalised(o, batch0) ==
    LET batch == _clip_batch(o, batch0)
        raw == _reward(o, batch)
        n == Len(raw)
        r_i == [j \in 1..n |-> raw[j] * Scale]
        r == [j \in 1..Len(batch.r) |-> batch.r[j] * Scale]
        info == [logged |-> TRUE,
                 mean_intrinsic_reward |-> mean(r_i),
                 max_intrinsic_reward |-> MaxSeq(r_i),
                 mean_extrinsic_reward |-> mean(r)]
    IN  [obj |-> [o EXCEPT !.info = info],
         ret |-> << [j \in 1..n |-> r[j] * o.ext_coef + r_i[j] * o.int_coef],
                    [j \in 1..n |-> r[j] * o.ext_coef],
                    [j \in 1..n |-> r_i[j] * o.int_coef] >>,
         events |-> <<>>,
         err |-> ""]

\* IntrinsicReward.reward
reward(o, batch0) ==
    LET batch == _clip_batch(o, batch0)
        raw == _reward(o, batch)
        n == Len(raw)
        r_i == IF o.reward_normalisation.on
               THEN [j \in 1..n |->
                        (raw[j] * Scale * Scale) \div std(o.reward_normalisation.st)]
               ELSE [j \in 1..n |-> raw[j] * Scale]
        r == [j \in 1..Len(batch.r) |-> batch.r[j] * Scale]
        info == [logged |-> TRUE,
                 mean_intrinsic_reward |-> mean(r_i),
                 max_intrinsic_reward |-> MaxSeq(r_i),
                 mean_extrinsic_reward |-> mean(r)]
    IN  [obj |-> [o EXCEPT !.info = info],
         ret |-> << [j \in 1..n |-> r[j] * o.ext_coef + r_i[j] * o.int_coef],
                    [j \in 1..n |-> r[j] * o.ext_coef],
                    [j \in 1..n |-> r_i[j] * o.int_coef] >>,
         events |-> <<>>,
         err |-> ""]

\* update with the predictor trained before the statistic is fed: a fault
\* C5_StatisticBeforeTraining must detect
update_trained_first(o, batch0, aux, step) ==
    LET batch == _clip_batch(o, batch0)
        o1 == _update(o, batch, aux, step)
        rewards == _reward(o1, batch)
    IN  [obj |-> IF o1.reward_normalisation.on
                 THEN [o1 EXCEPT !.reward_normalisation.st =
                                     add_tensor_batch(@, rewards, aux.weights)]
                 ELSE o1,
         ret |-> <<>>,
         events |-> << Event("_update", <<batch, aux, step>>, o) >> \o
                    (IF o1.reward_normalisation.on
                     THEN << Event("add_tensor_batch", <<rewards, aux.weights>>, o1) >>
                     ELSE <<>>),
         err |-> ""]

\* IntrinsicReward.update
IntrinsicReward_update(o, batch0, aux, step) ==
    LET batch == _clip_batch(o, batch0)
        rewards == _reward(o, batch)
        o1 == IF o.reward_normalisation.on
              THEN [o EXCEPT !.reward_normalisation.st =
                                 add_tensor_batch(@, rewards, aux.weights)]
              ELSE o
        ev1 == IF o.reward_normalisation.on
               THEN << Event("add_tensor_batch", <<rewards, aux.weights>>, o) >>
               ELSE <<>>
    IN  [obj |-> _update(o1, batch, aux, step),
         ret |-> <<>>,
         events |-> ev1 \o << Event("_update", <<batch, aux, step>>, o1) >>,
         err |-> ""]

\* initialise that also trains the predictor: a fault
\* C10_InitialiseDoesNotTrain must detect
initialise_and_train(o, batch0) ==
    LET batch == _clip_batch(o, batch0)
        rewards == _reward(o, batch)
        o1 == IF o.reward_normalisation.on
              THEN [o EXCEPT !.reward_normalisation.st =
                                 add_tensor_batch(@, rewards, ones(Len(rewards)))]
              ELSE o
    IN  [obj |-> _update(o1, batch, NoAux, 0),
         ret |-> <<>>,
         events |-> (IF o.reward_normalisation.on
                     THEN << Event("add_tensor_batch",
                                   <<rewards, ones(Len(rewards))>>, o) >>
                     ELSE <<>>) \o << Event("_update", <<batch, NoAux, 0>>, o1) >>,
         err |-> ""]

\* IntrinsicReward.initialise
initialise(o, batch0) ==
    LET batch == _clip_batch(o, batch0)
        rewards == _reward(o, batch)
    IN  IF o.reward_normalisation.on
        THEN [obj |-> [o EXCEPT !.reward_normalisation.st =
                                    add_tensor_batch(@, rewards, ones(Len(rewards)))],
              ret |-> <<>>,
              events |-> << Event("add_tensor_batch",
                                  <<rewards, ones(Len(rewards))>>, o) >>,
              err |-> ""]
        ELSE [obj |-> o, ret |-> <<>>, events |-> <<>>, err |-> ""]

---------------------------------------------------------------------------
(* Floating-point values of the policy update: n/d with d > 0 in lowest    *)
(* terms, NaN = 0/0, +Inf = 1/0, -Inf = -1/0                               *)

RECURSIVE GCD(_, _)
GCD(a, b) == IF b = 0 THEN a ELSE GCD(b, a % b)

Sign(x) == IF x > 0 THEN 1 ELSE IF x < 0 THEN -1 ELSE 0

\* the value n/d, d # 0, in lowest terms
Frac(n, d) ==
    LET g == GCD(Abs(n), Abs(d)) IN
    [n |-> (Sign(d) * n) \div g, d |-> Abs(d) \div g]

Num(k) == [n |-> k, d |-> 1]
NaN == [n |-> 0, d |-> 0]
Inf(s) == [n |-> s, d |-> 0]

IsNaN(x) == x.d = 0 /\ x.n = 0
IsInf(x) == x.d = 0 /\ x.n # 0
IsFinite(x) == x.d # 0

\* x <= y, neither NaN
FLe(x, y) ==
    IF IsInf(x) THEN x.n < 0 \/ (IsInf(y) /\ y.n > 0)
    ELSE IF IsInf(y) THEN y.n > 0
    ELSE x.n * y.d <= y.n * x.d

FNeg(x) == [n |-> -x.n, d |-> x.d]

FAdd(x, y) ==
    IF IsNaN(x) \/ IsNaN(y) THEN NaN
    ELSE IF IsInf(x) /\ IsInf(y) THEN (IF x.n = y.n THEN x ELSE NaN)
    ELSE IF IsInf(x) THEN x
    ELSE IF IsInf(y) THEN y
    ELSE Frac(x.n * y.d + y.n * x.d, x.d * y.d)

FSub(x, y) == FAdd(x, FNeg(y))

FMul(x, y) ==
    IF IsNaN(x) \/ IsNaN(y) THEN NaN
    ELSE IF IsInf(x) \/ IsInf(y)
         THEN (IF x.n = 0 \/ y.n = 0 THEN NaN ELSE Inf(Sign(x.n) * Sign(y.n)))
    ELSE Frac(x.n * y.n, x.d * y.d)

\* x / y; a zero divisor is +0.0
FDiv(x, y) ==
    IF IsNaN(x) \/ IsNaN(y) THEN NaN
    ELSE IF IsInf(x) THEN (IF IsInf(y) THEN NaN
                           ELSE Inf(Sign(x.n) * (IF y.n < 0 THEN -1 ELSE 1)))
    ELSE IF IsInf(y) THEN Num(0)
    ELSE IF y.n = 0 THEN (IF x.n = 0 THEN NaN ELSE Inf(Sign(x.n)))
    ELSE Frac(x.n * y.d, x.d * y.n)

\* torch.minimum: NaN if either is
FMinimum(x, y) ==
    IF IsNaN(x) \/ IsNaN(y) THEN NaN ELSE IF FLe(x, y) THEN x ELSE y

FMaximum(x, y) ==
    IF IsNaN(x) \/ IsNaN(y) THEN NaN ELSE IF FLe(x, y) THEN y ELSE x

\* torch.clamp(x, lo, hi) with finite bounds: min(max(x, lo), hi)
FClamp(x, lo, hi) == FMinimum(FMaximum(x, lo), hi)

RECURSIVE FSum(_)
FSum(v) == IF v = <<>> THEN Num(0) ELSE FAdd(Head(v), FSum(Tail(v)))

\* Tensor.mean(): NaN for an empty tensor
FMean(v) == IF v = <<>> THEN NaN ELSE FDiv(FSum(v), Num(Len(v)))

---------------------------------------------------------------------------
(* ProximalPolicyOptimisation *)

\* the defaults of __init__
DefaultUpdateEpochs == 4
DefaultMinibatchSize == 32
DefaultClipRatio == Frac(1, 10)

\* The policy (a StochasticActor) is tabular: its parameters are the
\* log-probabilities, in units of ln 2, it gives the samples 1..MaxBatch.
LogProbVals == {Num(-2), Num(-1), NaN}
Actors == [1..MaxBatch -> LogProbVals]

\* the batch of the samples 1..n (an empty batch for n = 0)
Batch(n) == [j \in 1..n |-> j]

\* actor.log_prob(batch.s_0, batch.a)
log_prob(actor, batch) == [j \in 1..Len(batch) |-> actor[batch[j]]]

\* ProximalPolicyOptimisation.__init__: the fields of a new object.
\* advantage_estimation is the number of refits of the estimator.
ProximalPolicyOptimisation(actor, advantage_estimation, update_epochs, minibatch_size, clip_ratio) ==
    [actor |-> actor,
     advantage_estimation |-> advantage_estimation,
     update_epochs |-> update_epochs,
     minibatch_size |-> minibatch_size,
     clip_ratio |-> clip_ratio]

\* math.ceil(n / m) for integers n and m # 0
ceil(n, m) == LET q == Frac(n, m) IN -((-q.n) \div q.d)

\* the outcomes of rng.shuffle(np.arange(n)): the permutations of 0..n-1
shuffle(n) ==
    { p \in [1..n -> 0..(n - 1)] : \A j, k \in 1..n : p[j] = p[k] => j = k }

\* indices[key] for a one-dimensional numpy array and a tuple key: one
\* index per dimension, more are an IndexError (too many indices for array)
getitem(indices, key) ==
    IF Len(key) > 1 THEN [err |-> "IndexError", val |-> <<>>]
    ELSE IF key[1] >= Len(indices) \/ key[1] < -Len(indices)
         THEN [err |-> "IndexError", val |-> <<>>]
    ELSE [err |-> "", val |-> << indices[(key[1] % Len(indices)) + 1] >>]

\* x[mb_indices] for a tensor or batch x and an array of 0-based indices
take(x, mb_indices) == [j \in 1..Len(mb_indices) |-> x[mb_indices[j] + 1]]

\* the length of the elementwise combination of one-dimensional tensors of
\* lengths a and b under broadcasting; -1 when they do not broadcast
broadcast(a, b) ==
    IF a = b THEN a ELSE IF a = 1 THEN b ELSE IF b = 1 THEN a ELSE -1

\* element j of a tensor broadcast to a longer one
at(x, j) == IF Len(x) = 1 THEN x[1] ELSE x[j]

\* update, lines 68-72: the loss of one minibatch (ratio and clipped surrogate)
minibatch_loss(log_prob_update, log_prob_orig, a_hat_mb, clip_ratio) ==
    LET l1 == broadcast(Len(log_prob_update), Len(log_prob_orig))
        ratio == [j \in 1..l1 |-> FDiv(at(log_prob_update, j), at(log_prob_orig, j))]
        l2 == broadcast(l1, Len(a_hat_mb))
        lo == FSub(Num(1), clip_ratio)
        hi == FAdd(Num(1), clip_ratio)
        surr == [j \in 1..l2 |->
                    FMinimum(FMul(at(ratio, j), at(a_hat_mb, j)),
                             FMul(FClamp(at(ratio, j), lo, hi), at(a_hat_mb, j)))]
    IN  IF l1 < 0 \/ l2 < 0
        THEN [err |-> "RuntimeError", ratio |-> <<>>, surr |-> <<>>, actor_loss |-> NaN]
        ELSE [err |-> "", ratio |-> ratio, surr |-> surr,
              actor_loss |-> FNeg(FMean(surr))]

\* update, lines 65-72, as a function of the values they read: the minibatch
\* of the indices mb_indices, its advantages, its log-probabilities under the
\* actor, and its loss against the snapshot log_prob_orig
update_loss(actor, batch, a_hat, log_prob_orig, mb_indices, clip_ratio) ==
    LET mb == take(batch, mb_indices)
        a_hat_mb == take(a_hat, mb_indices)
        log_prob_update == log_prob(actor, mb)
        res == minibatch_loss(log_prob_update, log_prob_orig, a_hat_mb, clip_ratio)
    IN  [err |-> res.err, log_prob_update |-> log_prob_update, a_hat_mb |-> a_hat_mb,
         ratio |-> res.ratio, surr |-> res.surr, actor_loss |-> res.actor_loss]

\* the parameters one optimizer step may leave: unchanged ones, moved ones,
\* and NaN everywhere once the loss is not finite
optim_step(actor, actor_loss) ==
    IF ~IsFinite(actor_loss) THEN { [x \in DOMAIN actor |-> NaN] }
    ELSE { actor,
           [x \in DOMAIN actor |->
               IF actor[x] = Num(-1) THEN Num(-2)
               ELSE IF actor[x] = Num(-2) THEN Num(-1) ELSE actor[x]] }

\* the frame of update: no call yet
Idle ==
    [pc |-> "idle", err |-> "", batch |-> <<>>, n |-> 0, n_minibatches |-> 0,
     a_hat |-> <<>>, log_prob_orig |-> <<>>, total_loss |-> Num(0),
     epoch |-> 0, indices |-> <<>>, i |-> 0, mb_indices |-> <<>>,
     calls |-> <<>>, mbs |-> <<>>, steps |-> 0, nonfinite |-> FALSE,
     log_prob_update |-> <<>>, a_hat_mb |-> <<>>, ratio |-> <<>>, surr |-> <<>>,
     actor_loss |-> Num(0)]

NonFinite(v) == \E j \in 1..Len(v) : ~IsFinite(v[j])

\* update, lines 45-57: the advantage, the batch size, the number of
\* minibatches and the snapshot of the log-probabilities
update_begin(o, batch, a_hat) ==
    LET o1 == [o EXCEPT !.advantage_estimation = @ + 1]
        n == Len(batch)
        f1 == [Idle EXCEPT !.batch = batch, !.a_hat = a_hat, !.n = n,
                           !.calls = <<"advantage_estimation.update",
                                       "advantage_estimation.A">>]
        log_prob_orig == log_prob(o1.actor, batch)
    IN  IF o1.minibatch_size = 0
        THEN [obj |-> o1,
              frame |-> [f1 EXCEPT !.pc = "raised", !.err = "ZeroDivisionError"]]
        ELSE [obj |-> o1,
              frame |-> [f1 EXCEPT !.pc = "epochs",
                                   !.n_minibatches = ceil(n, o1.minibatch_size),
                                   !.log_prob_orig = log_prob_orig,
                                   !.nonfinite = NonFinite(log_prob_orig),
                                   !.calls = Append(@, "actor.log_prob")]]

\* an epoch that estimates the advantage again: a fault C3_AdvantageOnce must
\* detect
update_epoch_reestimating(f, indices) ==
    [f EXCEPT !.pc = "minibatches", !.epoch = @ + 1, !.indices = indices,
              !.i = 0, !.mbs = Append(@, <<>>),
              !.calls = @ \o <<"advantage_estimation.A", "rng.shuffle">>]

\* update, lines 58-60: a new epoch shuffles the indices
update_epoch(f, indices) ==
    [f EXCEPT !.pc = "minibatches", !.epoch = @ + 1, !.indices = indices,
              !.i = 0, !.calls = Append(@, "rng.shuffle"), !.mbs = Append(@, <<>>)]

\* update, lines 65-76: the loss of minibatch mb_indices and one optimizer step
update_minibatch(o, f, mb_indices) ==
    LET res == update_loss(o.actor, f.batch, f.a_hat, f.log_prob_orig, mb_indices,
                           o.clip_ratio)
        f1 == [f EXCEPT !.mb_indices = mb_indices,
                        !.log_prob_update = res.log_prob_update,
                        !.a_hat_mb = res.a_hat_mb,
                        !.nonfinite = @ \/ NonFinite(res.log_prob_update),
                        !.calls = Append(@, "actor.log_prob")]
    IN  IF res.err # ""
        THEN { [obj |-> o, frame |-> [f1 EXCEPT !.pc = "raised", !.err = res.err]] }
        ELSE { [obj |-> [o EXCEPT !.actor = actor],
                frame |-> [f1 EXCEPT !.pc = "minibatches", !.i = @ + 1,
                                     !.ratio = res.ratio, !.surr = res.surr,
                                     !.actor_loss = res.actor_loss,
                                     !.total_loss = FAdd(@, res.actor_loss),
                                     !.steps = @ + 1,
                                     !.mbs[Len(f.mbs)] = Append(@, mb_indices),
                                     !.calls = Append(@, "optim.step")]]
               : actor \in optim_step(o.actor, res.actor_loss) }

\* update, lines 61-64: the minibatch's indices, then its loss and step
update_slice(o, f) ==
    LET g == getitem(f.indices, << f.i * o.minibatch_size,
                                   Min2(f.n, (f.i + 1) * o.minibatch_size) >>)
    IN  IF g.err # ""
        THEN { [obj |-> o, frame |-> [f EXCEPT !.pc = "raised", !.err = g.err]] }
        ELSE update_minibatch(o, f, g.val)

---------------------------------------------------------------------------
(* Default objects *)

\* the objects constructed with the defaults of __init__
DefaultIntrinsic == IntrinsicReward("NoIntrinsicReward", 1, 1, FALSE, None)
DefaultPPO ==
    ProximalPolicyOptimisation([x \in 1..MaxBatch |-> Num(-1)], 0, DefaultUpdateEpochs,
                               DefaultMinibatchSize, DefaultClipRatio)


---------------------------------------------------------------------------
(* The shaper's state machine: any sequence of reward / update / initialise *)

\* the configurations objects are constructed with: <<int_coef, ext_coef>>,
\* normalised_obs_clip, and the step numbers passed to update
CoefVals == { <<1, 1>>, <<2, -1>>, <<-1, 2>> }
StepVals == {1}
ClipVals == {None, Some(1)}

Call(op, batch, aux, step, pre, res) ==
    [op |-> op, batch |-> batch, aux |-> aux, step |-> step, pre |-> pre,
     ret |-> res.ret, events |-> res.events, err |-> res.err]

NoCall(o) ==
    [op |-> "__init__", batch |-> BatchOf(<<>>), aux |-> NoAux, step |-> 0,
     pre |-> o, ret |-> <<>>, events |-> <<>>, err |-> ""]

InitIntrinsic ==
    /\ ir \in { IntrinsicReward(k, c[1], c[2], rn, cl) :
                  k \in Kinds, c \in CoefVals, rn \in BOOLEAN, cl \in ClipVals }
    /\ ir_call = NoCall(ir)
    /\ ppo = DefaultPPO
    /\ upd = Idle

\* the counters the model caps
Within(o) ==
    /\ o.reward_normalisation.st.count <= MaxCount
    /\ o.pred <= MaxPred

Reward ==
    \E batch \in Batches :
        LET res == reward(ir, batch) IN
        /\ ir' = res.obj
        /\ ir_call' = Call("reward", batch, NoAux, 0, ir, res)
        /\ UNCHANGED <<ppo, upd>>

Update ==
    \E batch \in Batches : \E aux \in AuxFor(batch) : \E step \in StepVals :
        LET res == IntrinsicReward_update(ir, batch, aux, step) IN
        /\ Within(res.obj)
        /\ ir' = res.obj
        /\ ir_call' = Call("update", batch, aux, step, ir, res)
        /\ UNCHANGED <<ppo, upd>>

Initialise ==
    \E batch \in Batches :
        LET res == initialise(ir, batch) IN
        /\ Within(res.obj)
        /\ ir' = res.obj
        /\ ir_call' = Call("initialise", batch, NoAux, 0, ir, res)
        /\ UNCHANGED <<ppo, upd>>

NextIntrinsic == Reward \/ Update \/ Initialise

SpecIntrinsic == InitIntrinsic /\ [][NextIntrinsic]_vars

---------------------------------------------------------------------------
(* The policy update's state machine: update calls, step by step *)

\* the configurations objects are constructed with
EpochVals == {0, 1, 2}
MinibatchVals == {-1, 0, 1, 2}
ClipRatioVals == {Frac(1, 10), Frac(-1, 10)}
\* the advantages an estimator returns
AdvVals == {Num(-1), Num(2)}

PPOs ==
    { ProximalPolicyOptimisation(actor, 0, e, m, c) :
        actor \in Actors, e \in EpochVals, m \in MinibatchVals, c \in ClipRatioVals }

InitPPO ==
    /\ ppo \in PPOs
    /\ upd = Idle
    /\ ir = DefaultIntrinsic
    /\ ir_call = NoCall(ir)

\* the inner loop is over, or was never entered
AtEpochs ==
    \/ upd.pc = "epochs"
    \/ upd.pc = "minibatches" /\ upd.i >= upd.n_minibatches

Begin ==
    /\ upd.pc \in {"idle", "returned", "raised"}
    /\ ppo.advantage_estimation < MaxCalls
    /\ \E n \in 0..MaxBatch : \E a_hat \in [1..n -> AdvVals] :
         LET res == update_begin(ppo, Batch(n), a_hat) IN
         /\ ppo' = res.obj
         /\ upd' = res.frame
    /\ UNCHANGED <<ir, ir_call>>

Epoch ==
    /\ AtEpochs
    /\ upd.epoch < ppo.update_epochs
    /\ \E indices \in shuffle(upd.n) : upd' = update_epoch(upd, indices)
    /\ UNCHANGED <<ir, ir_call, ppo>>

Minibatch ==
    /\ upd.pc = "minibatches"
    /\ upd.i < upd.n_minibatches
    /\ \E res \in update_slice(ppo, upd) :
         /\ ppo' = res.obj
         /\ upd' = res.frame
    /\ UNCHANGED <<ir, ir_call>>

\* update, line 78
Return ==
    /\ AtEpochs
    /\ upd.epoch >= ppo.update_epochs
    /\ upd' = [upd EXCEPT !.pc = "returned"]
    /\ UNCHANGED <<ir, ir_call, ppo>>

NextPPO == Begin \/ Epoch \/ Minibatch \/ Return

SpecPPO == InitPPO /\ [][NextPPO]_vars

---------------------------------------------------------------------------
(* Properties of the intrinsic-reward shaper, checked under SpecIntrinsic *)

\* the clipped batch and the raw intrinsic reward the last call worked on
CallBatch == _clip_batch(ir_call.pre, ir_call.batch)
CallRaw == _reward(ir_call.pre, CallBatch)
NormOn == ir_call.pre.reward_normalisation.on
NUpdates(events) == Cardinality({ k \in 1..Len(events) : events[k].f = "_update" })

\* C5: update with normalisation enabled feeds the running statistic the raw
\* intrinsic reward of the clipped batch, weighted by aux.weights and computed
\* with the predictor as it was before the call, and only then invokes _update;
\* _update is invoked exactly once per update call, with the clipped batch.
C5_StatisticBeforeTraining ==
    ir_call.op = "update" =>
        /\ NUpdates(ir_call.events) = 1
        /\ ir_call.events[Len(ir_call.events)] =
               [f |-> "_update", arg |-> <<CallBatch, ir_call.aux, ir_call.step>>,
                pred |-> ir_call.pre.pred]
        /\ NormOn =>
               /\ Len(ir_call.events) = 2
               /\ ir_call.events[1] =
                      [f |-> "add_tensor_batch", arg |-> <<CallRaw, ir_call.aux.weights>>,
                       pred |-> ir_call.pre.pred]
               /\ ir.reward_normalisation.st =
                      add_tensor_batch(ir_call.pre.reward_normalisation.st,
                                       CallRaw, ir_call.aux.weights)
        /\ ~NormOn => Len(ir_call.events) = 1

\* an update call with normalisation whose _update changed what _reward gives
C5_Witness ==
    /\ ir_call.op = "update"
    /\ NormOn
    /\ ir.pred # ir_call.pre.pred
    /\ _reward(ir, CallBatch) # CallRaw
    /\ ir.reward_normalisation.st.count > 0

\* C6: reward with normalisation enabled, called before the running statistic
\* has observed any data, is rejected with a "not initialized" error.
C6_RejectsUninitialised ==
    (/\ ir_call.op = "reward"
     /\ NormOn
     /\ ir_call.pre.reward_normalisation.st.count = 0)
        => ir_call.err = "not initialized" /\ ir_call.ret = <<>>

\* C8: reward returns (total, extrinsic, intrinsic) with extrinsic =
\* ext_coef * r, total = extrinsic + intrinsic, and intrinsic = int_coef * raw
\* without normalisation and int_coef * raw / running_std with it, raw being
\* _reward of the clipped batch; for NoIntrinsicReward the intrinsic term is
\* all zeros, one per sample of the batch.
C8_RewardTuple ==
    ir_call.op = "reward" =>
        LET o == ir_call.pre
            n == Len(ir_call.batch.r)
            sd == std(o.reward_normalisation.st)
        IN  /\ Len(ir_call.ret) = 3
            /\ \A t \in 1..3 : Len(ir_call.ret[t]) = n
            /\ \A j \in 1..n :
                 /\ ir_call.ret[2][j] = o.ext_coef * ir_call.batch.r[j] * Scale
                 /\ ir_call.ret[1][j] = ir_call.ret[2][j] + ir_call.ret[3][j]
                 /\ ir_call.ret[3][j] =
                        IF NormOn THEN o.int_coef * ((CallRaw[j] * Scale * Scale) \div sd)
                        ELSE o.int_coef * CallRaw[j] * Scale
            /\ o.kind = "NoIntrinsicReward" => ir_call.ret[3] = [j \in 1..n |-> 0]

\* a reward call normalised by a statistic that has seen data, whose standard
\* deviation is not one and whose intrinsic term is not zero
C8_Witness ==
    /\ ir_call.op = "reward"
    /\ NormOn
    /\ ir_call.pre.reward_normalisation.st.count > 0
    /\ std(ir_call.pre.reward_normalisation.st) # Scale
    /\ \E j \in 1..Len(ir_call.ret[3]) : ir_call.ret[3][j] # 0

\* C10: initialise never invokes _update and leaves the predictor unchanged;
\* with normalisation it adds _reward of the clipped batch to the running
\* statistic with default weights (and changes nothing else), without it it
\* changes no state at all; _update runs only inside update.
C10_InitialiseDoesNotTrain ==
    /\ NUpdates(ir_call.events) > 0 => ir_call.op = "update"
    /\ ir.pred # ir_call.pre.pred => ir_call.op = "update"
    /\ ir_call.op = "initialise" =>
         /\ NormOn =>
              /\ ir_call.events =
                     << [f |-> "add_tensor_batch",
                         arg |-> <<CallRaw, [j \in 1..Len(CallRaw) |-> 1]>>,
                         pred |-> ir_call.pre.pred] >>
              /\ ir = [ir_call.pre EXCEPT !.reward_normalisation.st =
                          add_tensor_batch(@, CallRaw, [j \in 1..Len(CallRaw) |-> 1])]
         /\ ~NormOn => ir = ir_call.pre /\ ir_call.events = <<>>

\* an initialise call, after the predictor was trained, that fed the statistic
C10_Witness ==
    /\ ir_call.op = "initialise"
    /\ NormOn
    /\ ir_call.pre.pred > 0
    /\ ir.reward_normalisation.st.count > ir_call.pre.reward_normalisation.st.count

---------------------------------------------------------------------------
(* Properties of the policy update, checked under SpecPPO *)

Finished == upd.pc \in {"returned", "raised"}
Count(calls, name) == Cardinality({ k \in 1..Len(calls) : calls[k] = name })

\* C1: for every batch size N >= 1 and minibatch_size >= 1, each of the
\* update_epochs epochs splits a permutation of 0..N-1 into exactly
\* ceil(N / minibatch_size) minibatches, every index in exactly one of them,
\* all of minibatch_size elements but a possibly smaller last one, and one
\* optimizer step is taken per minibatch.
C1_MinibatchAccounting ==
    (Finished /\ upd.n >= 1 /\ ppo.minibatch_size >= 1 /\ ppo.update_epochs >= 1) =>
        LET m == ppo.minibatch_size
            k == ceil(upd.n, m)
        IN  /\ upd.pc = "returned"
            /\ Len(upd.mbs) = ppo.update_epochs
            /\ upd.steps = ppo.update_epochs * k
            /\ \A e \in 1..Len(upd.mbs) :
                 /\ Len(upd.mbs[e]) = k
                 /\ \A b \in 1..Len(upd.mbs[e]) :
                      Len(upd.mbs[e][b]) = IF b < k THEN m ELSE upd.n - (k - 1) * m
                 /\ \A x \in 0..(upd.n - 1) :
                      Cardinality({ bj \in { <<b, j>> : b \in 1..Len(upd.mbs[e]),
                                                        j \in 1..upd.n } :
                                      /\ bj[2] <= Len(upd.mbs[e][bj[1]])
                                      /\ upd.mbs[e][bj[1]][bj[2]] = x }) = 1

\* C3: every update call calls advantage_estimation.update exactly once and
\* first, then advantage_estimation.A exactly once, before any optimizer step,
\* and never calls A again in the epoch / minibatch loop.
C3_AdvantageOnce ==
    upd.pc # "idle" =>
        /\ Len(upd.calls) >= 2
        /\ upd.calls[1] = "advantage_estimation.update"
        /\ upd.calls[2] = "advantage_estimation.A"
        /\ Count(upd.calls, "advantage_estimation.update") = 1
        /\ Count(upd.calls, "advantage_estimation.A") = 1

\* an update call that is over and went through two epochs
C3_Witness ==
    /\ Finished
    /\ upd.epoch >= 2
    /\ Count(upd.calls, "rng.shuffle") >= 2

\* C4: once log_prob has given a non-finite value, the update call ends with
\* an error: it takes no further optimizer step and does not return normally.
C4_NonFiniteIsFatal ==
    upd.nonfinite => upd.pc # "returned"

\* C7: no IntrinsicReward with a negative int_coef or ext_coef, and no
\* ProximalPolicyOptimisation with clip_ratio <= 0, minibatch_size <= 0 or
\* update_epochs <= 0, is ever constructed.
C7_ConstructionValidated ==
    /\ ir.int_coef >= 0
    /\ ir.ext_coef >= 0
    /\ ~FLe(ppo.clip_ratio, Num(0))
    /\ ppo.minibatch_size > 0
    /\ ppo.update_epochs > 0

\* a call over, of a non-empty batch, with at least one epoch and a positive
\* minibatch size: a call the loop of which has minibatches
HadMinibatches ==
    Finished /\ upd.n >= 1 /\ ppo.minibatch_size >= 1 /\ ppo.update_epochs >= 1

\* exp(x) for x in units of ln 2 with an integer, NaN or infinite value
exp(x) ==
    IF IsNaN(x) THEN NaN
    ELSE IF IsInf(x) THEN (IF x.n > 0 THEN Inf(1) ELSE Num(0))
    ELSE IF x.n >= 0 THEN Num(2 ^ x.n) ELSE Frac(1, 2 ^ (-x.n))

\* x clipped to [lo, hi]; to hi when the interval is empty
Clip(x, lo, hi) ==
    IF IsNaN(x) THEN NaN
    ELSE IF ~FLe(lo, hi) THEN hi
    ELSE IF FLe(x, lo) THEN lo
    ELSE IF FLe(hi, x) THEN hi
    ELSE x

\* the clipped surrogate of one sample: -min(ratio * A, clip(ratio) * A)
Surrogate(ratio, A, clip_ratio) ==
    FNeg(FMinimum(FMul(ratio, A),
                  FMul(Clip(ratio, FSub(Num(1), clip_ratio), FAdd(Num(1), clip_ratio)), A)))

\* C2: a call whose loop has minibatches computes their losses from ratios,
\* and the ratio of sample j of a minibatch is exp(log_prob_new[j] -
\* log_prob_old[j]), log_prob_old being the value for that same sample in the
\* snapshot taken once, before the first optimizer step (stated for finite
\* log-probabilities).
C2_RatioIsExpOfDifference ==
    /\ (HadMinibatches /\ ~upd.nonfinite) => upd.steps > 0 /\ upd.ratio # <<>>
    /\ upd.steps > 0 => Count(upd.calls, "actor.log_prob") = 1 + upd.steps
    /\ (upd.steps > 0 /\ ~upd.nonfinite) =>
        /\ Len(upd.ratio) = Len(upd.mb_indices)
        /\ \A j \in 1..Len(upd.mb_indices) :
             upd.ratio[j] = exp(FSub(upd.log_prob_update[j],
                                     upd.log_prob_orig[upd.mb_indices[j] + 1]))

\* C9: a call whose loop has minibatches returns a loss, and the loss of a
\* minibatch is the mean over the samples of the minibatch of
\* -min(ratio * A, clip(ratio, 1 - clip_ratio, 1 + clip_ratio) * A); for a
\* ratio above 1 + clip_ratio and a positive advantage that surrogate is
\* -(1 + clip_ratio) * A, the clipped branch.
C9_ClippedSurrogate ==
    /\ HadMinibatches => upd.pc = "returned" /\ upd.surr # <<>>
    /\ upd.steps > 0 =>
        LET hi == FAdd(Num(1), ppo.clip_ratio)
            m == Len(upd.mb_indices)
        IN  /\ Len(upd.ratio) = m
            /\ Len(upd.surr) = m
            /\ Len(upd.a_hat_mb) = m
            /\ \A j \in 1..m :
                 /\ FNeg(upd.surr[j]) =
                        Surrogate(upd.ratio[j], upd.a_hat_mb[j], ppo.clip_ratio)
                 /\ (/\ ~IsNaN(upd.ratio[j])
                     /\ ~FLe(upd.ratio[j], hi)
                     /\ ~FLe(upd.a_hat_mb[j], Num(0)))
                        => FNeg(upd.surr[j]) = FNeg(FMul(hi, upd.a_hat_mb[j]))
            /\ upd.actor_loss =
                   FMean([j \in 1..m |->
                             Surrogate(upd.ratio[j], upd.a_hat_mb[j], ppo.clip_ratio)])

====
